---- MODULE Spec2Model ----
(***************************************************************************)
(* src/main.rs: main() builds a tokio runtime with one core (scheduling)   *)
(* thread and BLOCKING_THREADS units of blocking capacity, block_on()s     *)
(* main_fut(), which spawns TASKS futures prime_output(i, max - STEP*i),   *)
(* waits in shutdown_on_idle() and prints "Bye".  Each future is one       *)
(* poll_fn(blocking(..)): a poll either finds blocking capacity and runs   *)
(* the closure (find_nth_prime + println!) on the polling thread, or       *)
(* returns Pending and the future waits, first come first served, for the  *)
(* capacity a finishing future gives back.                                 *)
(*                                                                         *)
(* The numbers 20, 5, 5_000_000 and 200_000 of main.rs are the PROGRAM     *)
(* configuration; the model runs the same code for that configuration and  *)
(* for small ones (fewer tasks, smaller pools), which is what the general  *)
(* statements "for every N, M" and the N=5, M=2 scenario are about.        *)
(***************************************************************************)
EXTENDS Integers, Sequences, FiniteSets, TLC

\* ---------------------------------------------------------------- constants
\* main.rs:56   for i in 0..20
TASKS == 20
\* main.rs:101  .blocking_threads(5)
BLOCKING_THREADS == 5
\* main.rs:55   let max = 5_000_000u64
max == 5000000
\* main.rs:57   200_000*i
STEP == 200000

\* ------------------------------------------------------------------- bounds
\* small configurations: at most MaxTasks tasks on at most MaxPool slots
MaxTasks == 4
MaxPool == 3
\* the configurations checked for termination under fairness
FairTasks == 4
FairPool == 2

\* ----------------------------------------------------------- configurations
\* N tasks, M units of blocking capacity, inputs first - step*i
PROGRAM == [N |-> TASKS, M |-> BLOCKING_THREADS, first |-> max, step |-> STEP]

\* the N=5, M=2 scenario: inputs 10, 9, 8, 7, 6
SCENARIO == [N |-> 5, M |-> 2, first |-> 10, step |-> 1]

\* step 0 gives equal inputs (durations not strictly decreasing)
SmallConfigs == [N : 0..MaxTasks, M : 0..MaxPool, first : {10}, step : {0, 1}]

FairConfigs == [N : 0..FairTasks, M : 0..FairPool, first : {10}, step : {1}]

\* the program's pool with one task more than it has slots
FULLPOOL == [N |-> BLOCKING_THREADS + 1, M |-> BLOCKING_THREADS, first |-> max,
             step |-> STEP]

VARIABLES
    cfg,        \* the configuration of this run (never changes)
    pc,         \* where main() is
    i,          \* main_fut's loop variable
    task,       \* task[t]: state of the future prime_output(t, ..)
    n,          \* n[t]: the input the future was spawned with
    runq,       \* the pool's run queue: futures notified and not yet polled
    waitq,      \* futures waiting for blocking capacity, oldest first
    capacity,   \* blocking capacity not allocated to any future
    slot,       \* slot[t]: the unit of capacity future t holds (0: none)
    thread,     \* history: thread[t] is the unit the closure of t ran on
    granted,    \* history: ids in the order capacity was allocated to them
    started,    \* history: ids in the order they entered the closure
    t0,         \* t0[t]: Instant::now() taken at the closure's start
    left,       \* left[t]: time the workload of t still needs
    clock,      \* the time
    out,        \* the lines printed to stdout
    failed,     \* history: the futures that panicked, and what had started then
    lock,       \* the task whose println! holds the stdout lock (-1: none)
    sink        \* stdout as println! writes it, one formatted field at a time

vars == <<cfg, pc, i, task, n, runq, waitq, capacity, slot, thread, granted,
          started, t0, left, clock, out, failed, lock, sink>>

N == cfg.N
M == cfg.M
Ids == 0..(N - 1)

\* ------------------------------------------------------------------ helpers
Range(s) == {s[k] : k \in 1..Len(s)}

Min(S) == CHOOSE x \in S : \A y \in S : x <= y

\* mutant of Input: the loop counter is taken one too far
InputOffByOne(c, k) == c.first - c.step * (k + 1)

\* mutant of Input: the inputs grow with the index
InputAscending(c, k) == c.first + c.step * k

\* main.rs:57  let n = max - 200_000*i
Input(c, k) == c.first - c.step * k

\* main.rs:74-96  the time find_nth_prime(n) took for each input of the
\* program, in ms, as recorded in main's doc comment
ELAPSED_MS ==
    (5000000 :> 312824) @@ (4800000 :> 287379) @@ (4600000 :> 276399) @@
    (4400000 :> 250352) @@ (4200000 :> 239881) @@ (4000000 :> 228976) @@
    (3800000 :> 209286) @@ (3600000 :> 183773) @@ (3400000 :> 167897) @@
    (3200000 :> 151493) @@ (3000000 :> 147052) @@ (2800000 :> 126380) @@
    (2600000 :> 112429) @@ (2400000 :> 98256) @@ (2200000 :> 92645) @@
    (2000000 :> 74454) @@ (1800000 :> 64282) @@ (1600000 :> 53941) @@
    (1400000 :> 46629) @@ (1200000 :> 35867)

\* mutant of Cost: the delay does not depend on the input
CostFlat(x) == IF x \in DOMAIN ELAPSED_MS THEN ELAPSED_MS[x] ELSE 1

\* main.rs:22-32  find_nth_prime(n) runs its loop p_n - 1 times: the time it
\* takes grows strictly with n.  For the program's inputs it is the recorded
\* time; for the small inputs of the other configurations, one unit of time
\* per unit of n.
Cost(x) == IF x \in DOMAIN ELAPSED_MS THEN ELAPSED_MS[x] ELSE x

\* main.rs:46  the line println! writes
ResultLine(id, x, secs) == [kind |-> "result", id |-> id, n |-> x, secs |-> secs]

\* main.rs:108  println!("Bye")
ByeLine == [kind |-> "Bye", id |-> 0, n |-> 0, secs |-> 0]

\* the units of capacity are interchangeable; the model names the unit a
\* future takes from the counter by the lowest number not in use
FreeSlot == Min({s \in 1..(M + N + 1) : \A t \in Ids : slot[t] # s})

\* mutant of CanBlock: the capacity is not looked at
CanBlockAlways(t) == TRUE

\* main.rs:42  blocking(..) may enter: the future already holds capacity
\* handed to it, or the pool has some left
CanBlock(t) == slot[t] # 0 \/ capacity > 0

\* -------------------------------------------------------------------- Init
InitWith(c) ==
    /\ cfg = c
    /\ pc = "start"
    /\ i = 0
    /\ task = [t \in 0..(c.N - 1) |-> "new"]
    /\ n = [t \in 0..(c.N - 1) |-> 0]
    /\ runq = <<>>
    /\ waitq = <<>>
    /\ capacity = 0
    /\ slot = [t \in 0..(c.N - 1) |-> 0]
    /\ thread = [t \in 0..(c.N - 1) |-> 0]
    /\ granted = <<>>
    /\ started = <<>>
    /\ t0 = [t \in 0..(c.N - 1) |-> 0]
    /\ left = [t \in 0..(c.N - 1) |-> 0]
    /\ clock = 0
    /\ out = <<>>
    /\ failed = <<>>
    /\ lock = -1
    /\ sink = <<>>

Init == \E c \in SmallConfigs \cup {SCENARIO, FULLPOOL} : InitWith(c)

\* ------------------------------------------------------------- main thread
\* main.rs:100-105  Builder::new().blocking_threads(5).core_threads(1).build()
Build ==
    /\ pc = "start"
    /\ capacity' = M
    /\ pc' = "main_fut"
    /\ UNCHANGED <<thread, cfg, i, task, n, runq, waitq, slot, granted, started, t0,
                   left, clock, out,
                   failed, lock, sink>>

\* mutant of Spawn: the new future goes to the front of the run queue
SpawnFront ==
    /\ pc = "main_fut"
    /\ i < N
    /\ n' = [n EXCEPT ![i] = Input(cfg, i)]
    /\ task' = [task EXCEPT ![i] = "queued"]
    /\ runq' = <<i>> \o runq
    /\ i' = i + 1
    /\ UNCHANGED <<thread, cfg, pc, waitq, capacity, slot, granted, started, t0, left,
                   clock, out,
                   failed, lock, sink>>

\* mutant of Spawn: main_fut spawns only while blocking capacity is free
SpawnWaits ==
    /\ pc = "main_fut"
    /\ i < N
    /\ capacity > 0
    /\ n' = [n EXCEPT ![i] = Input(cfg, i)]
    /\ task' = [task EXCEPT ![i] = "queued"]
    /\ runq' = Append(runq, i)
    /\ i' = i + 1
    /\ UNCHANGED <<thread, cfg, pc, waitq, capacity, slot, granted, started, t0, left,
                   clock, out,
                   failed, lock, sink>>

\* main.rs:56-59  one turn of main_fut's loop: tokio::spawn(prime_output(i, n))
Spawn ==
    /\ pc = "main_fut"
    /\ i < N
    /\ n' = [n EXCEPT ![i] = Input(cfg, i)]
    /\ task' = [task EXCEPT ![i] = "queued"]
    /\ runq' = Append(runq, i)
    /\ i' = i + 1
    /\ UNCHANGED <<thread, cfg, pc, waitq, capacity, slot, granted, started, t0, left,
                   clock, out,
                   failed, lock, sink>>

\* mutant of BlockOnReturn: main goes on to println!("Bye") without
\* shutdown_on_idle
BlockOnReturnExits ==
    /\ pc = "main_fut"
    /\ i = N
    /\ pc' = "println"
    /\ UNCHANGED <<thread, cfg, i, task, n, runq, waitq, capacity, slot, granted,
                   started, t0, left, clock, out,
                   failed, lock, sink>>

\* main.rs:106  main_fut is finished, rt.block_on returns
BlockOnReturn ==
    /\ pc = "main_fut"
    /\ i = N
    /\ pc' = "shutdown_on_idle"
    /\ UNCHANGED <<thread, cfg, i, task, n, runq, waitq, capacity, slot, granted,
                   started, t0, left, clock, out,
                   failed, lock, sink>>

\* mutant of ShutdownOnIdle: idle means "nothing queued", whatever is running
ShutdownOnQueueEmpty ==
    /\ pc = "shutdown_on_idle"
    /\ runq = <<>>
    /\ waitq = <<>>
    /\ pc' = "println"
    /\ UNCHANGED <<thread, cfg, i, task, n, runq, waitq, capacity, slot, granted,
                   started, t0, left, clock, out,
                   failed, lock, sink>>

\* main.rs:107  rt.shutdown_on_idle() returns once no spawned future is left
ShutdownOnIdle ==
    /\ pc = "shutdown_on_idle"
    /\ \A t \in Ids : task[t] = "done"
    /\ pc' = "println"
    /\ UNCHANGED <<thread, cfg, i, task, n, runq, waitq, capacity, slot, granted,
                   started, t0, left, clock, out,
                   failed, lock, sink>>

\* main.rs:108  println!("Bye"), and main returns
Bye ==
    /\ pc = "println"
    /\ out' = Append(out, ByeLine)
    /\ pc' = "exit"
    /\ UNCHANGED <<thread, cfg, i, task, n, runq, waitq, capacity, slot, granted,
                   started, t0, left, clock,
                   failed, lock, sink>>

\* ---------------------------------------------------------------- the pool
\* main.rs:41-43  the scheduling thread polls the next future of the run
\* queue and blocking(..) enters the closure: let t = Instant::now()
PollBlocking ==
    /\ runq # <<>>
    /\ LET t == Head(runq) IN
        /\ CanBlock(t)
        /\ runq' = Tail(runq)
        /\ task' = [task EXCEPT ![t] = "blocking"]
        /\ IF slot[t] # 0
              THEN UNCHANGED <<capacity, slot, granted>>
              ELSE /\ capacity' = capacity - 1
                   /\ slot' = [slot EXCEPT ![t] = FreeSlot]
                   /\ granted' = Append(granted, t)
        /\ thread' = [thread EXCEPT ![t] = slot'[t]]
        /\ started' = Append(started, t)
        /\ t0' = [t0 EXCEPT ![t] = clock]
        /\ left' = [left EXCEPT ![t] = Cost(n[t])]
    /\ UNCHANGED <<cfg, pc, i, n, waitq, clock, out,
                   failed, lock, sink>>

\* mutant of PollPending: the future is not queued for capacity (it is never
\* notified)
PollPendingLost ==
    /\ runq # <<>>
    /\ LET t == Head(runq) IN
        /\ ~CanBlock(t)
        /\ runq' = Tail(runq)
        /\ task' = [task EXCEPT ![t] = "waiting"]
    /\ UNCHANGED <<thread, cfg, pc, i, n, waitq, capacity, slot, granted, started, t0,
                   left, clock, out,
                   failed, lock, sink>>

\* mutant of PollPending: the waiting futures are a stack
PollPendingFront ==
    /\ runq # <<>>
    /\ LET t == Head(runq) IN
        /\ ~CanBlock(t)
        /\ runq' = Tail(runq)
        /\ task' = [task EXCEPT ![t] = "waiting"]
        /\ waitq' = <<t>> \o waitq
    /\ UNCHANGED <<thread, cfg, pc, i, n, capacity, slot, granted, started, t0, left,
                   clock, out,
                   failed, lock, sink>>

\* main.rs:41-42  the poll finds no capacity: blocking(..) returns Pending
\* and the future is queued for capacity
PollPending ==
    /\ runq # <<>>
    /\ LET t == Head(runq) IN
        /\ ~CanBlock(t)
        /\ runq' = Tail(runq)
        /\ task' = [task EXCEPT ![t] = "waiting"]
        /\ waitq' = Append(waitq, t)
    /\ UNCHANGED <<thread, cfg, pc, i, n, capacity, slot, granted, started, t0, left,
                   clock, out,
                   failed, lock, sink>>

\* main.rs:44-46  the workload is finished: t.elapsed() and println!
Report(t) ==
    /\ task[t] = "blocking"
    /\ out' = Append(out, ResultLine(t, n[t], clock - t0[t]))
    /\ task' = [task EXCEPT ![t] = "reported"]
    /\ UNCHANGED <<thread, cfg, pc, i, n, runq, waitq, capacity, slot, granted,
                   started, t0, left, clock,
                   failed, lock, sink>>

\* mutant of Release: the future the capacity is handed to stays queued for
\* capacity
ReleaseKeepsWaiter(t) ==
    /\ task[t] = "reported"
    /\ IF waitq # <<>>
          THEN LET h == Head(waitq) IN
               /\ slot' = [slot EXCEPT ![t] = 0, ![h] = slot[t]]
               /\ task' = [task EXCEPT ![t] = "done", ![h] = "queued"]
               /\ runq' = Append(runq, h)
               /\ granted' = Append(granted, h)
               /\ UNCHANGED <<capacity, waitq>>
          ELSE /\ slot' = [slot EXCEPT ![t] = 0]
               /\ task' = [task EXCEPT ![t] = "done"]
               /\ capacity' = capacity + 1
               /\ UNCHANGED <<waitq, runq, granted>>
    /\ UNCHANGED <<thread, cfg, pc, i, n, started, t0, left, clock, out,
                   failed, lock, sink>>

\* mutant of Release: the future the capacity is handed to is not notified
ReleaseSilent(t) ==
    /\ task[t] = "reported"
    /\ IF waitq # <<>>
          THEN LET h == Head(waitq) IN
               /\ slot' = [slot EXCEPT ![t] = 0, ![h] = slot[t]]
               /\ task' = [task EXCEPT ![t] = "done", ![h] = "queued"]
               /\ waitq' = Tail(waitq)
               /\ granted' = Append(granted, h)
               /\ UNCHANGED <<capacity, runq>>
          ELSE /\ slot' = [slot EXCEPT ![t] = 0]
               /\ task' = [task EXCEPT ![t] = "done"]
               /\ capacity' = capacity + 1
               /\ UNCHANGED <<waitq, runq, granted>>
    /\ UNCHANGED <<thread, cfg, pc, i, n, started, t0, left, clock, out,
                   failed, lock, sink>>

\* mutant of Release: the capacity is taken from a future whose closure is
\* still running
ReleaseCancels(t) ==
    /\ task[t] = "blocking"
    /\ IF waitq # <<>>
          THEN LET h == Head(waitq) IN
               /\ slot' = [slot EXCEPT ![t] = 0, ![h] = slot[t]]
               /\ task' = [task EXCEPT ![t] = "done", ![h] = "queued"]
               /\ waitq' = Tail(waitq)
               /\ runq' = Append(runq, h)
               /\ granted' = Append(granted, h)
               /\ UNCHANGED capacity
          ELSE /\ slot' = [slot EXCEPT ![t] = 0]
               /\ task' = [task EXCEPT ![t] = "done"]
               /\ capacity' = capacity + 1
               /\ UNCHANGED <<waitq, runq, granted>>
    /\ UNCHANGED <<thread, cfg, pc, i, n, started, t0, left, clock, out,
                   failed, lock, sink>>

\* mutant of Release: the finished future is queued for another poll
ReleaseRequeues(t) ==
    /\ task[t] = "reported"
    /\ slot' = [slot EXCEPT ![t] = 0]
    /\ task' = [task EXCEPT ![t] = "queued"]
    /\ capacity' = capacity + 1
    /\ runq' = Append(runq, t)
    /\ UNCHANGED <<thread, cfg, pc, i, n, waitq, granted, started, t0,
                   left, clock, out,
                   failed, lock, sink>>

\* mutant of Release: the capacity goes back to the pool and the waiting
\* futures are not notified
ReleaseForgets(t) ==
    /\ task[t] = "reported"
    /\ slot' = [slot EXCEPT ![t] = 0]
    /\ task' = [task EXCEPT ![t] = "done"]
    /\ capacity' = capacity + 1
    /\ UNCHANGED <<thread, cfg, pc, i, n, runq, waitq, granted, started, t0,
                   left, clock, out,
                   failed, lock, sink>>

\* mutant of Release: the capacity goes to the newest waiting future
ReleaseNewest(t) ==
    /\ task[t] = "reported"
    /\ IF waitq # <<>>
          THEN LET h == waitq[Len(waitq)] IN
               /\ slot' = [slot EXCEPT ![t] = 0, ![h] = slot[t]]
               /\ task' = [task EXCEPT ![t] = "done", ![h] = "queued"]
               /\ waitq' = SubSeq(waitq, 1, Len(waitq) - 1)
               /\ runq' = Append(runq, h)
               /\ granted' = Append(granted, h)
               /\ UNCHANGED capacity
          ELSE /\ slot' = [slot EXCEPT ![t] = 0]
               /\ task' = [task EXCEPT ![t] = "done"]
               /\ capacity' = capacity + 1
               /\ UNCHANGED <<waitq, runq, granted>>
    /\ UNCHANGED <<thread, cfg, pc, i, n, started, t0, left, clock, out,
                   failed, lock, sink>>

\* main.rs:47-50  the closure returns, the poll is Ready(Ok(())), the future
\* is complete: its capacity goes to the oldest waiting future, which is
\* notified (queued for a poll), or back to the pool
Release(t) ==
    /\ task[t] = "reported"
    /\ IF waitq # <<>>
          THEN LET h == Head(waitq) IN
               /\ slot' = [slot EXCEPT ![t] = 0, ![h] = slot[t]]
               /\ task' = [task EXCEPT ![t] = "done", ![h] = "queued"]
               /\ waitq' = Tail(waitq)
               /\ runq' = Append(runq, h)
               /\ granted' = Append(granted, h)
               /\ UNCHANGED capacity
          ELSE /\ slot' = [slot EXCEPT ![t] = 0]
               /\ task' = [task EXCEPT ![t] = "done"]
               /\ capacity' = capacity + 1
               /\ UNCHANGED <<waitq, runq, granted>>
    /\ UNCHANGED <<thread, cfg, pc, i, n, started, t0, left, clock, out,
                   failed, lock, sink>>

\* ------------------------------------------------- every interleaving (Spec)
\* a workload may finish at any moment: nothing is assumed about durations
Finish == \E t \in Ids : Report(t)

Complete == \E t \in Ids : Release(t)

Next ==
    \/ Build
    \/ Spawn
    \/ BlockOnReturn
    \/ ShutdownOnIdle
    \/ Bye
    \/ PollBlocking
    \/ PollPending
    \/ Finish
    \/ Complete

Spec == Init /\ [][Next]_vars

\* ------------------------------------------------ fair scheduling (FairSpec)
\* the main thread and the scheduling thread keep running, every workload
\* terminates
FairInit == \E c \in FairConfigs : InitWith(c)

FairSpec ==
    /\ FairInit
    /\ [][Next]_vars
    /\ WF_vars(Build) /\ WF_vars(Spawn) /\ WF_vars(BlockOnReturn)
    /\ WF_vars(ShutdownOnIdle) /\ WF_vars(Bye)
    /\ WF_vars(PollBlocking) /\ WF_vars(PollPending)
    /\ WF_vars(Finish) /\ WF_vars(Complete)

\* ------------------------------------------------- timed runs (TimedSpec)
\* the workload of task t takes Cost(n[t]) units of time on its own thread,
\* all blocking threads run in parallel at the same speed, and everything
\* else (spawning, polling, printing, handing capacity on) takes no time
Running == {t \in Ids : task[t] = "blocking"}

Quiescent ==
    /\ pc \in {"shutdown_on_idle", "exit"}
    /\ ~(pc = "shutdown_on_idle" /\ \A t \in Ids : task[t] = "done")
    /\ runq = <<>>
    /\ \A t \in Ids : task[t] # "reported"
    /\ \A t \in Running : left[t] > 0

\* time passes until the next workload is finished
Advance ==
    /\ Quiescent
    /\ Running # {}
    /\ LET d == Min({left[t] : t \in Running}) IN
        /\ clock' = clock + d
        /\ left' = [t \in Ids |-> IF t \in Running THEN left[t] - d ELSE left[t]]
    /\ UNCHANGED <<thread, cfg, pc, i, task, n, runq, waitq, capacity, slot, granted,
                   started, t0, out,
                   failed, lock, sink>>

TimedFinish == \E t \in Ids : left[t] = 0 /\ Report(t)

TimedInit == \E c \in SmallConfigs \cup {SCENARIO, FULLPOOL, PROGRAM} : InitWith(c)

TimedNext ==
    \/ Build
    \/ Spawn
    \/ BlockOnReturn
    \/ ShutdownOnIdle
    \/ Bye
    \/ PollBlocking
    \/ PollPending
    \/ TimedFinish
    \/ Complete
    \/ Advance

TimedSpec == TimedInit /\ [][TimedNext]_vars

\* ---------------------------------------------------------------- claims
\* the Result Records printed so far, and their ids, in output order
Results == SelectSeq(out, LAMBDA l : l.kind = "result")

ResultIds == [k \in 1..Len(Results) |-> Results[k].id]

NoDup(s) == \A j, k \in 1..Len(s) : j # k => s[j] # s[k]

\* the futures inside the closure (workload running or line just printed)
Executing == {t \in Ids : task[t] \in {"blocking", "reported"}}

\* the run is complete: shutdown_on_idle has returned
Completed == pc \in {"println", "exit"}

\* C1: no task is ever executed or reported twice, and once the run has
\* completed exactly N Result Records have been printed, with the ids 0..N-1
C1_ExactlyOnce ==
    /\ NoDup(started)
    /\ NoDup(ResultIds)
    /\ Completed => /\ Len(Results) = N
                    /\ Range(ResultIds) = Ids
                    /\ Range(started) = Ids

\* a completed run of at least three tasks on fewer slots than tasks
C1_Witness == pc = "println" /\ M >= 1 /\ N >= 3 /\ N > M

\* C2: no id is granted capacity twice, no two futures hold the same unit,
\* and no grant is lost: a future holds a unit exactly from its grant until
\* it is done, and only granted futures ever run
C2_NoDoubleClaim ==
    /\ NoDup(granted)
    /\ \A a, b \in Ids : (a # b /\ slot[a] # 0) => slot[a] # slot[b]
    /\ \A t \in Ids : slot[t] # 0 <=> (t \in Range(granted) /\ task[t] # "done")
    /\ \A t \in Ids : task[t] \in {"blocking", "reported", "done"} => t \in Range(granted)

\* a unit was handed from a finished future to a waiting one while others run
C2_Witness ==
    /\ \E t \in Ids : task[t] = "queued" /\ slot[t] # 0
    /\ Cardinality(Executing) >= 2

\* C3: with M >= 1, under fair scheduling the run ends: every task has
\* started, N Result Records and then the one line Bye are printed
Terminated ==
    /\ pc = "exit"
    /\ Range(started) = Ids
    /\ Len(out) = N + 1
    /\ \A k \in 1..N : out[k].kind = "result"
    /\ out[N + 1] = ByeLine

C3_Terminates == (M >= 1) ~> Terminated

\* the end of a run in which tasks had to wait for capacity
C3_Witness == Terminated /\ M >= 1 /\ N >= M + 2

\* C4: Bye is printed, and main is past shutdown_on_idle, only when every
\* task is done and its Result Record printed
C4_ByeLast ==
    (Completed \/ ByeLine \in Range(out)) =>
        /\ \A t \in Ids : task[t] = "done"
        /\ Len(Results) = N

\* block_on has returned while a task runs and another has not started
C4_Witness ==
    /\ pc = "shutdown_on_idle"
    /\ \E t \in Ids : task[t] = "waiting"
    /\ \E t \in Ids : task[t] = "blocking"
    /\ ByeLine \notin Range(out)

\* C5: when N >= M, the first M tasks to enter the closure are 0..M-1
C5_FirstMStart ==
    (N >= M) => \A k \in 1..Len(started) : k <= M => started[k] < M

\* more than M tasks have started, on a pool of at least two
C5_Witness == N > M /\ M >= 2 /\ Len(started) > M

\* C6: capacity is granted in submission order: the k-th grant is to id k-1
C6_GrantOrder == \A k \in 1..Len(granted) : granted[k] = k - 1

\* main_fut is still spawning after a unit has been handed on
C6_Witness == pc = "main_fut" /\ i < N /\ Len(granted) > M /\ M >= 1

\* C7: at most M closures run at a time, and the capacity of the pool is
\* conserved: free units plus held units are M
C7_AtMostM ==
    /\ Cardinality(Executing) <= M
    /\ capacity >= 0
    /\ pc # "start" => capacity + Cardinality({t \in Ids : slot[t] # 0}) = M

\* the pool is full and a task waits
C7_Witness == M >= 2 /\ Cardinality(Executing) = M /\ waitq # <<>>

\* the workload durations strictly decrease in submission order
DurationsDecreasing ==
    \A a, b \in Ids : a < b => Cost(Input(cfg, a)) > Cost(Input(cfg, b))

\* C8: in a timed run with strictly decreasing durations and N > M >= 1, the
\* first M Result Records are those of M-1, M-2, .., 0 in this order, and
\* task M starts, when task M-1 is done, on the unit task M-1 ran on
C8_ReverseOrder ==
    (DurationsDecreasing /\ N > M /\ M >= 1) =>
        /\ \A k \in 1..Len(Results) : k <= M => Results[k].id = M - k
        /\ thread[M] # 0 => /\ thread[M] = thread[M - 1]
                            /\ t0[M] = Cost(Input(cfg, M - 1))

\* the program's run: #4 .. #0 have returned and #5 has started
C8_Witness == cfg = PROGRAM /\ Len(Results) >= M /\ thread[M] # 0

\* C9: in the scenario N=5, M=2, inputs 10, 9, 8, 7, 6, tasks 0 and 1 start
\* at time 0, task 1 completes first (so before task 0), task 2 starts at
\* time 9 on the unit task 1 ran on, and the second completion is 0 or 2
C9_Scenario ==
    cfg = SCENARIO =>
        /\ \A t \in {0, 1} : thread[t] # 0 => t0[t] = 0
        /\ clock > 0 => (thread[0] # 0 /\ thread[1] # 0)
        /\ Len(Results) >= 1 => Results[1].id = 1
        /\ thread[2] # 0 => (thread[2] = thread[1] /\ t0[2] = 9)
        /\ Len(Results) >= 2 => Results[2].id \in {0, 2}

\* the scenario has run to its end
C9_Witness == cfg = SCENARIO /\ pc = "exit" /\ Len(Results) = 5

\* C10: a run with pool_size 0 or with no task never gets past startup: no
\* runtime is built, nothing is spawned or polled, nothing is printed
C10_ConfigRejected ==
    (M <= 0 \/ N = 0) => (pc = "start" /\ i = 0 /\ out = <<>>)

\* ------------------------------------------- runs with failures (FaultSpec)
\* A panic inside a spawned future unwinds out of its poll and ends that
\* future only: the pool drops the future, the unit of capacity it holds is
\* given back as at a normal completion, and the other futures and main()
\* go on.

\* the unit future t holds goes to the oldest waiting future or back to the
\* pool
HandOn(t) ==
    IF waitq # <<>>
       THEN LET h == Head(waitq) IN
            /\ slot' = [slot EXCEPT ![t] = 0, ![h] = slot[t]]
            /\ task' = [task EXCEPT ![t] = "done", ![h] = "queued"]
            /\ waitq' = Tail(waitq)
            /\ runq' = Append(runq, h)
            /\ granted' = Append(granted, h)
            /\ UNCHANGED capacity
       ELSE /\ slot' = [slot EXCEPT ![t] = 0]
            /\ task' = [task EXCEPT ![t] = "done"]
            /\ capacity' = capacity + 1
            /\ UNCHANGED <<waitq, runq, granted>>

Failure(t) == [id |-> t, nstarted |-> Len(started), ngranted |-> Len(granted)]

\* mutant of Panic: the panic ends the process
PanicAborts(t) ==
    /\ task[t] = "blocking"
    /\ failed' = Append(failed, Failure(t))
    /\ pc' = "exit"
    /\ UNCHANGED <<cfg, i, task, n, runq, waitq, capacity, slot, thread,
                   granted, started, t0, left, clock, out, lock, sink>>

\* main.rs:42-48  the closure panics (the workload fails, or println! does):
\* no line is printed.  (blocking(..) itself returns an error, which
\* .expect("Couldn't block") turns into a panic, only outside a pool thread,
\* where these futures never run.)
Panic(t) ==
    /\ task[t] = "blocking"
    /\ failed' = Append(failed, Failure(t))
    /\ HandOn(t)
    /\ UNCHANGED <<cfg, pc, i, n, thread, started, t0, left, clock, out,
                   lock, sink>>

Crash == \E t \in Ids : Panic(t)

FaultInit == \E c \in FairConfigs : InitWith(c)

FaultNext ==
    \/ Next
    \/ Crash

FaultSpec == FaultInit /\ [][FaultNext]_vars

FailedIds == {failed[k].id : k \in 1..Len(failed)}

Unclaimed == {t \in Ids : task[t] \in {"queued", "waiting"} /\ slot[t] = 0}

\* C12: the pool is work-conserving.  While a unit of blocking capacity is
\* free and a spawned task holds none, no task waits for capacity, the
\* unclaimed tasks stand in the run queue in spawn order, and a poll that
\* enters blocking(..) is enabled while a poll that returns Pending is not;
\* and whenever fewer than M tasks execute and a spawned task is unclaimed,
\* that task is granted capacity.
C12_WorkConserving ==
    /\ [](capacity > 0 /\ Unclaimed # {} =>
             /\ waitq = <<>>
             /\ Unclaimed \subseteq Range(runq)
             /\ \A j, k \in 1..Len(runq) :
                    j < k /\ runq[j] \in Unclaimed /\ runq[k] \in Unclaimed
                        => runq[j] < runq[k]
             /\ ENABLED PollBlocking
             /\ ~ENABLED PollPending)
    /\ \A t \in 0..(FairTasks - 1) :
           (t \in Unclaimed /\ Cardinality(Executing) < M)
               ~> (t \in Range(granted))

C12_Witness ==
    /\ capacity > 0
    /\ Cardinality(Unclaimed) >= 2
    /\ Executing # {}
    /\ \E t \in Ids : task[t] = "done"

\* C13: exhaustion is permanent.  The sequence of grants only grows at its
\* end, and once all N tasks have been granted capacity no step grants
\* again: no task is unclaimed, a unit of capacity that is free or becomes
\* free is never allocated again, and a task that gave its unit back never
\* holds one again.
C13_ExhaustionPermanent ==
    [][/\ Len(granted) <= Len(granted')
       /\ SubSeq(granted', 1, Len(granted)) = granted
       /\ Len(granted) = N =>
              /\ granted' = granted
              /\ capacity' >= capacity
              /\ Unclaimed' = {}
              /\ \A t \in Ids : slot[t] = 0 => slot'[t] = 0]_vars

C13_Witness ==
    /\ N >= 3
    /\ N > M
    /\ Len(granted) = N
    /\ capacity > 0
    /\ Executing # {}

\* the futures that hold a unit of blocking capacity
Holders == {t \in Ids : slot[t] # 0}

\* C14: a unit of capacity is held by at most one task, and a task that was
\* granted a unit keeps that same unit in every step until its result line is
\* printed and its future completes: it never waits for capacity again, a
\* running closure runs on the unit it was granted, stays running until it
\* has printed, and a completed future stays completed.
C14_StaysWithWorker ==
    [][/\ \A s, t \in Holders : s # t => slot[s] # slot[t]
       /\ \A t \in Holders :
              /\ t \notin Range(waitq)
              /\ task[t] \in {"queued", "blocking", "reported"}
              /\ task[t] \in {"blocking", "reported"} => thread[t] = slot[t]
              /\ \/ slot'[t] = slot[t]
                 \/ /\ task[t] = "reported"
                    /\ task'[t] = "done"
                    /\ t \in Range(ResultIds)
       /\ \A t \in Ids :
              /\ task[t] = "blocking" => task'[t] \in {"blocking", "reported"}
              /\ task[t] = "reported" => task'[t] \in {"reported", "done"}
              /\ task[t] = "done" => task'[t] = "done"]_vars

C14_Witness ==
    /\ \E t \in Holders : task[t] = "reported"
    /\ \E k \in (M + 1)..Len(granted) : task[granted[k]] = "blocking"
    /\ waitq # <<>>

\* C15: main_fut never waits for the pool.  In every state in which it still
\* has a task to spawn the spawn is enabled, and once it has spawned all N
\* its return is enabled, whatever the pool is doing; the loop counter only
\* goes up by one and never beyond N, so N steps spawn everything; and a
\* step of main_fut starts no closure, prints nothing, allocates no capacity
\* and leaves every running workload as it was.
C15_DispatchNeverWaits ==
    /\ [](/\ i <= N
          /\ pc = "main_fut" /\ i < N => ENABLED Spawn
          /\ pc = "main_fut" /\ i = N => ENABLED BlockOnReturn
          /\ pc # "main_fut" => i \in {0, N})
    /\ [][i' # i \/ (pc = "main_fut" /\ pc' # pc) =>
             /\ i' \in {i, i + 1}
             /\ started' = started
             /\ out' = out
             /\ capacity' = capacity
             /\ slot' = slot
             /\ waitq' = waitq
             /\ left' = left
             /\ \A t \in Ids : task[t] # "new" => task'[t] = task[t]]_vars

C15_Witness ==
    /\ pc = "main_fut"
    /\ M >= 2
    /\ i > M
    /\ i < N
    /\ \A t \in Ids : slot[t] # 0 => task[t] = "blocking"
    /\ capacity = 0
    /\ waitq # <<>>
    /\ out = <<>>

\* C16: in the program's own run, the i-th spawned task (i = 0..19) has id i
\* and input 5,000,000 - 200,000 * i.  The tasks spawned so far are exactly
\* the ids below the loop counter (none skipped, none twice), the
\* subtraction never goes below zero (200,000 * i <= 5,000,000, so the u64
\* arithmetic does not wrap), inputs are positive and strictly decreasing in
\* the id, the last one is 1,200,000, and every printed line pairs an id with
\* that id's input.
C16_Inputs ==
    cfg = PROGRAM =>
        /\ N = 20
        /\ i \in 0..20
        /\ \A t \in Ids : task[t] # "new" <=> t < i
        /\ NoDup(runq \o waitq)
        /\ \A t \in 0..(i - 1) :
               /\ 200000 * t <= 5000000
               /\ n[t] = 5000000 - 200000 * t
               /\ n[t] > 0
               /\ \A s \in 0..(t - 1) : n[s] > n[t]
        /\ i = 20 => n[19] = 1200000
        /\ \A k \in 1..Len(Results) :
               Results[k].n = 5000000 - 200000 * Results[k].id

C16_Witness == cfg = PROGRAM /\ i = 20 /\ Len(Results) = 20 /\ n[0] = 5000000

\* ------------------------------------------------ the output sink (SinkSpec)
\* main.rs:46  println! locks stdout, writes the formatted arguments one
\* after the other and unlocks: the blocking threads print concurrently
\* the arguments of the result line: id, n, val, elapsed seconds
FIELDS == 4

\* a formatted argument of task t's line, as it reaches stdout
Fragment(t, f) == [id |-> t, field |-> f]

\* how many arguments of its line task t has written
Written(t) == Cardinality({k \in 1..Len(sink) : sink[k].id = t})

\* mutant of StdoutLock: stdout is written without mutual exclusion
StdoutNoLock(t) ==
    /\ task[t] = "blocking"
    /\ lock # t
    /\ Written(t) = 0
    /\ lock' = t
    /\ UNCHANGED <<cfg, pc, i, task, n, runq, waitq, capacity, slot, thread,
                   granted, started, t0, left, clock, out, failed, sink>>

\* main.rs:46  println! takes the lock of stdout
StdoutLock(t) ==
    /\ task[t] = "blocking"
    /\ lock = -1
    /\ lock' = t
    /\ UNCHANGED <<cfg, pc, i, task, n, runq, waitq, capacity, slot, thread,
                   granted, started, t0, left, clock, out, failed, sink>>

\* main.rs:46  the next formatted argument is written
StdoutWrite(t) ==
    /\ lock = t
    /\ Written(t) < FIELDS
    /\ sink' = Append(sink, Fragment(t, Written(t) + 1))
    /\ UNCHANGED <<cfg, pc, i, task, n, runq, waitq, capacity, slot, thread,
                   granted, started, t0, left, clock, out, failed, lock>>

\* main.rs:46  the line is complete: the lock is dropped, println! returns
StdoutUnlock(t) ==
    /\ lock = t
    /\ Written(t) = FIELDS
    /\ lock' = -1
    /\ out' = Append(out, ResultLine(t, n[t], clock - t0[t]))
    /\ task' = [task EXCEPT ![t] = "reported"]
    /\ UNCHANGED <<cfg, pc, i, n, runq, waitq, capacity, slot, thread,
                   granted, started, t0, left, clock, failed, sink>>

PrintLock == \E t \in Ids : StdoutLock(t)

PrintWrite == \E t \in Ids : StdoutWrite(t)

PrintUnlock == \E t \in Ids : StdoutUnlock(t)

SinkInit == \E c \in FairConfigs : InitWith(c)

SinkNext ==
    \/ Build
    \/ Spawn
    \/ BlockOnReturn
    \/ ShutdownOnIdle
    \/ Bye
    \/ PollBlocking
    \/ PollPending
    \/ PrintLock
    \/ PrintWrite
    \/ PrintUnlock
    \/ Complete

SinkSpec == SinkInit /\ [][SinkNext]_vars

\* C17: the sink holds whole records only.  What has reached stdout is, in
\* the order the lines were completed, the FIELDS arguments of each completed
\* line in their order, followed by the arguments written so far of the one
\* line being printed, if any; there is one line per task whose closure has
\* finished, and a task that finished has its line.
C17_WholeRecords ==
    /\ \A k \in 1..Len(sink) :
           LET r == ((k - 1) \div FIELDS) + 1
               f == ((k - 1) % FIELDS) + 1
           IN  /\ sink[k].field = f
               /\ sink[k].id = IF r <= Len(ResultIds) THEN ResultIds[r] ELSE lock
    /\ lock = -1 => Len(sink) = FIELDS * Len(Results)
    /\ lock # -1 =>
           /\ lock \in Ids
           /\ task[lock] = "blocking"
           /\ Len(sink) = FIELDS * Len(Results) + Written(lock)
    /\ NoDup(ResultIds)
    /\ \A t \in Ids : task[t] \in {"reported", "done"} <=> t \in Range(ResultIds)

\* two closures have finished their workload at the same time: one is in the
\* middle of its line, the other waits for stdout, after a first line
C17_Witness ==
    /\ lock # -1
    /\ Written(lock) \in 1..(FIELDS - 1)
    /\ \E t \in Ids : t # lock /\ task[t] = "blocking"
    /\ Len(Results) >= 1

\* the tasks other than t that ran on the unit task t ran on
SameWorker(t) == {s \in Ids \ {t} : thread[s] # 0 /\ thread[s] = thread[t]}

\* C18 as stated: in the scenario N=5, M=2, inputs 10, 9, 8, 7, 6, the task
\* that follows task 0 on its unit is the one of delay 6, started at time 10
\* (so that unit reaches 16), and the task that follows task 1 on its unit is
\* the one of delay 8, started at time 9 (so that unit reaches 17).
C18_AsStated ==
    cfg = SCENARIO =>
        /\ \A s \in SameWorker(0) : t0[s] = 10 => n[s] = 6
        /\ \A s \in SameWorker(1) : t0[s] = 9 => n[s] = 8

\* C18, amended: in the scenario the task that follows task 0 on its unit is
\* task 3 (delay 7), started at time 10, so that unit reaches 17; task 2
\* (delay 8) follows task 1 on the other unit at time 9, which reaches 17 as
\* well; task 4 (delay 6) starts at time 17, on either unit.
C18_GreedyTimes ==
    cfg = SCENARIO =>
        /\ \A s \in SameWorker(0) : t0[s] = 10 => (s = 3 /\ n[s] = 7)
        /\ \A s \in SameWorker(1) : t0[s] = 9 => (s = 2 /\ n[s] = 8)
        /\ thread[3] # 0 => (3 \in SameWorker(0) /\ t0[3] = 10)
        /\ thread[2] # 0 => (2 \in SameWorker(1) /\ t0[2] = 9)
        /\ thread[4] # 0 => (t0[4] = 17 /\ n[4] = 6)
        /\ \A k \in 1..Len(Results) : Results[k].secs = Results[k].n
        /\ \A t \in Ids : task[t] \in {"reported", "done"} => clock >= t0[t] + n[t]

C18_Witness ==
    /\ cfg = SCENARIO
    /\ 3 \in SameWorker(0)
    /\ 2 \in SameWorker(1)
    /\ task[4] = "done"
    /\ clock = 23

\* the futures whose last poll returned Pending
Pending == {t \in Ids : task[t] = "waiting"}

\* C19: a poll without capacity is harmless and not lost.  The step in which
\* a task is polled while no capacity is free starts no closure, prints
\* nothing and leaves the task queued for capacity, holding none; a pending
\* task has neither started nor printed; with a pool of at least one unit,
\* every pending task is later handed capacity and queued for another poll,
\* and then enters its closure and prints; and no task enters its closure or
\* prints more than once.
C19_PendingThenOnce ==
    /\ [][\A t \in Ids : (task[t] = "queued" /\ task'[t] = "waiting") =>
              /\ capacity = 0
              /\ Cardinality(Holders) = M
              /\ started' = started
              /\ out' = out
              /\ left' = left
              /\ slot'[t] = 0
              /\ t \in Range(waitq')]_vars
    /\ [](/\ \A t \in Pending : /\ t \in Range(waitq)
                                /\ t \notin Range(runq)
                                /\ t \notin Range(started)
                                /\ t \notin Range(ResultIds)
          /\ NoDup(waitq)
          /\ NoDup(runq)
          /\ NoDup(started)
          /\ NoDup(ResultIds))
    /\ \A t \in 0..(FairTasks - 1) :
           /\ (M >= 1 /\ t \in Pending) ~> (t \in Range(runq) /\ slot[t] # 0)
           /\ (M >= 1 /\ t \in Pending) ~> (t \in Range(started))
           /\ (M >= 1 /\ t \in Pending) ~> (t \in Range(ResultIds))

C19_Witness ==
    /\ M >= 1
    /\ Cardinality(Pending) >= 2
    /\ Cardinality(Executing) = M
    /\ out = <<>>
====
